---------------------------- MODULE Spec2Model ----------------------------
(***************************************************************************)
(* A model of the Zotero converters of ai-scholar-scripts: the five batch  *)
(* drivers (grant, news, podcast, twitter, youtube), the text normalizer   *)
(* clean_text and the relative-date resolver parse_relative_date.          *)
(*                                                                         *)
(* Text is a sequence of one-character strings, so that replace, strip and *)
(* split are computed the way Python computes them.  A value that Python   *)
(* may hold as None, or that may be missing from a mapping, is a record    *)
(* [k, s]: k is "absent" (no such key), "none" (the key maps to None) or   *)
(* "str" (the key maps to the text s).                                     *)
(***************************************************************************)
EXTENDS Integers, Sequences, FiniteSets, TLC

VARIABLES
    mapper,   \* which converter this behaviour runs
    pc,       \* position of the running convert call
    calls,    \* convert calls started so far on this converter
    seen,     \* records read so far by all calls
    input,    \* the input file of the current call: its header and records
    exc,      \* the exception that ended the current call, "" if none
    i,        \* records of the current call already processed
    items,    \* csl_items / zotero_items / self.output_data
    out,      \* the output file
    opened,   \* the current call has opened the output file for writing
    diag,     \* diagnostics printed by the current call
    now,      \* the system clock: the ordinal of the current day
    accessed, \* accessed[k] is the accessed date-parts of items[k]
    arg,      \* argument of the pure function under check
    ret       \* results of the pure function under check

vars == <<mapper, pc, calls, seen, input, exc, i, items, out, opened, diag, now, accessed,
          arg, ret>>

batchVars == <<mapper, pc, calls, seen, input, exc, i, items, out, opened, diag, now, accessed>>

pureVars == <<arg, ret>>

-----------------------------------------------------------------------------
(* Text primitives (Python str methods and the re calls of the source).    *)

Absent == [k |-> "absent", s |-> <<>>]

None == [k |-> "none", s |-> <<>>]

Str(s) == [k |-> "str", s |-> s]

\* dict.get(key, default): the default applies only when the key is missing.
Get(v, default) == IF v.k = "absent" THEN default ELSE v

\* Python truthiness of an optional text.
Truthy(v) == v.k = "str" /\ v.s # <<>>

RECURSIVE Flatten(_)
Flatten(ss) == IF ss = <<>> THEN <<>> ELSE Head(ss) \o Flatten(Tail(ss))

IsSpace(c) == c \in {" ", "\t", "\n"}

MatchAt(s, sub, k) ==
    /\ k + Len(sub) - 1 <= Len(s)
    /\ \A j \in 1..Len(sub) : s[k + j - 1] = sub[j]

\* sub in s
Contains(s, sub) == \E k \in 1..Len(s) : MatchAt(s, sub, k)

RECURSIVE ReplaceFrom(_, _, _, _)
ReplaceFrom(s, old, new, k) ==
    IF k > Len(s) THEN <<>>
    ELSE IF MatchAt(s, old, k) THEN new \o ReplaceFrom(s, old, new, k + Len(old))
    ELSE <<s[k]>> \o ReplaceFrom(s, old, new, k + 1)

\* s.replace(old, new), old non-empty: left to right, non-overlapping.
Replace(s, old, new) == ReplaceFrom(s, old, new, 1)

RECURSIVE LStripSet(_, _)
LStripSet(s, cs) ==
    IF s # <<>> /\ Head(s) \in cs THEN LStripSet(Tail(s), cs) ELSE s

RECURSIVE RStripSet(_, _)
RStripSet(s, cs) ==
    IF s # <<>> /\ s[Len(s)] \in cs THEN RStripSet(SubSeq(s, 1, Len(s) - 1), cs) ELSE s

Whitespace == {" ", "\t", "\n"}

\* s.strip()
Strip(s) == RStripSet(LStripSet(s, Whitespace), Whitespace)

RECURSIVE CollapseFrom(_, _)
CollapseFrom(s, k) ==
    IF k > Len(s) THEN <<>>
    ELSE IF IsSpace(s[k])
         THEN IF k < Len(s) /\ IsSpace(s[k + 1])
              THEN CollapseFrom(s, k + 1)
              ELSE <<" ">> \o CollapseFrom(s, k + 1)
         ELSE <<s[k]>> \o CollapseFrom(s, k + 1)

\* re.sub(r'\s+', ' ', s)
CollapseWs(s) == CollapseFrom(s, 1)

-----------------------------------------------------------------------------
(* TwitterToZoteroConverter.clean_text                                     *)

E_amp == <<"&", "a", "m", "p", ";">>

E_lt == <<"&", "l", "t", ";">>

E_gt == <<"&", "g", "t", ";">>

\* text.replace('&amp;', '&').replace('&lt;', '<').replace('&gt;', '>')
DecodeEntities(s) ==
    Replace(Replace(Replace(s, E_amp, <<"&">>), E_lt, <<"<">>), E_gt, <<">">>)

clean_text(text) ==
    IF ~Truthy(text) THEN <<>>
    ELSE DecodeEntities(Strip(CollapseWs(text.s)))

-----------------------------------------------------------------------------
(* More text primitives: lower(), split(), int().                          *)

UpperLetters ==
    <<"A", "B", "C", "D", "E", "F", "G", "H", "I", "J", "K", "L", "M",
      "N", "O", "P", "Q", "R", "S", "T", "U", "V", "W", "X", "Y", "Z">>

LowerLetters ==
    <<"a", "b", "c", "d", "e", "f", "g", "h", "i", "j", "k", "l", "m",
      "n", "o", "p", "q", "r", "s", "t", "u", "v", "w", "x", "y", "z">>

LowerChar(c) ==
    IF \E k \in 1..Len(UpperLetters) : UpperLetters[k] = c
    THEN LowerLetters[CHOOSE k \in 1..Len(UpperLetters) : UpperLetters[k] = c]
    ELSE c

\* s.lower()
Lower(s) == [k \in 1..Len(s) |-> LowerChar(s[k])]

RECURSIVE SplitWsFrom(_, _, _)
SplitWsFrom(s, k, cur) ==
    IF k > Len(s) THEN (IF cur = <<>> THEN <<>> ELSE <<cur>>)
    ELSE IF IsSpace(s[k])
         THEN (IF cur = <<>> THEN <<>> ELSE <<cur>>) \o SplitWsFrom(s, k + 1, <<>>)
         ELSE SplitWsFrom(s, k + 1, Append(cur, s[k]))

\* s.split(): the words between runs of whitespace.
SplitWs(s) == SplitWsFrom(s, 1, <<>>)

RECURSIVE SplitOnFrom(_, _, _, _)
SplitOnFrom(s, seps, k, cur) ==
    IF k > Len(s) THEN <<cur>>
    ELSE IF s[k] \in seps
         THEN <<cur>> \o SplitOnFrom(s, seps, k + 1, <<>>)
         ELSE SplitOnFrom(s, seps, k + 1, Append(cur, s[k]))

\* s.split(sep) and re.split(r'[...]', s): empty parts are kept.
SplitOn(s, seps) == SplitOnFrom(s, seps, 1, <<>>)

DigitChars == <<"0", "1", "2", "3", "4", "5", "6", "7", "8", "9">>

IsDigit(c) == \E k \in 1..Len(DigitChars) : DigitChars[k] = c

DigitVal(c) == (CHOOSE k \in 1..Len(DigitChars) : DigitChars[k] = c) - 1

RECURSIVE DigitsValue(_, _)
DigitsValue(s, acc) ==
    IF s = <<>> THEN acc
    ELSE IF Head(s) = "_" THEN DigitsValue(Tail(s), acc)
    ELSE DigitsValue(Tail(s), 10 * acc + DigitVal(Head(s)))

\* str(n) for n >= 0
RECURSIVE IntToText(_)
IntToText(n) ==
    IF n < 10 THEN <<DigitChars[n + 1]>>
    ELSE IntToText(n \div 10) \o <<DigitChars[(n % 10) + 1]>>

\* The digit part of an int literal: digits, single underscores between them.
IsIntBody(s) ==
    /\ s # <<>>
    /\ IsDigit(s[1])
    /\ IsDigit(s[Len(s)])
    /\ \A k \in 1..Len(s) : IsDigit(s[k]) \/ s[k] = "_"
    /\ \A k \in 1..(Len(s) - 1) : ~(s[k] = "_" /\ s[k + 1] = "_")

\* int(s): [ok, v]; ok = FALSE is ValueError.
ParseInt(s) ==
    LET t    == Strip(s)
        sgn  == t # <<>> /\ Head(t) \in {"+", "-"}
        body == IF sgn THEN Tail(t) ELSE t
    IN  IF IsIntBody(body)
        THEN [ok |-> TRUE,
              v  |-> IF sgn /\ Head(t) = "-" THEN 0 - DigitsValue(body, 0)
                     ELSE DigitsValue(body, 0)]
        ELSE [ok |-> FALSE, v |-> 0]

-----------------------------------------------------------------------------
(* Calendar arithmetic of datetime: proleptic Gregorian ordinals, day 1 is *)
(* 0001-01-01, the last representable day is 9999-12-31.                   *)

IsLeap(y) == y % 4 = 0 /\ (y % 100 # 0 \/ y % 400 = 0)

DaysInMonthTable == <<31, 28, 31, 30, 31, 30, 31, 31, 30, 31, 30, 31>>

DaysInMonth(y, m) == IF m = 2 /\ IsLeap(y) THEN 29 ELSE DaysInMonthTable[m]

DaysBeforeYear(y) ==
    LET p == y - 1 IN p * 365 + (p \div 4) - (p \div 100) + (p \div 400)

RECURSIVE DaysBeforeMonth(_, _)
DaysBeforeMonth(y, m) ==
    IF m = 1 THEN 0 ELSE DaysBeforeMonth(y, m - 1) + DaysInMonth(y, m - 1)

\* date.toordinal()
ToOrdinal(y, m, d) == DaysBeforeYear(y) + DaysBeforeMonth(y, m) + d

\* datetime.MINYEAR .. datetime.MAXYEAR as ordinals
MinOrdinal == ToOrdinal(1, 1, 1)

MaxOrdinal == ToOrdinal(9999, 12, 31)

\* date.fromordinal(n), for MinOrdinal <= n <= MaxOrdinal
FromOrdinal(n) ==
    LET n0   == n - 1
        n400 == n0 \div 146097
        r400 == n0 % 146097
        n100 == r400 \div 36524
        r100 == r400 % 36524
        n4   == r100 \div 1461
        r4   == r100 % 1461
        n1   == r4 \div 365
        r1   == r4 % 365
        year == n400 * 400 + 1 + n100 * 100 + n4 * 4 + n1
    IN  IF n1 = 4 \/ n100 = 4 THEN <<year - 1, 12, 31>>
        ELSE LET m == CHOOSE mm \in 1..12 :
                          /\ DaysBeforeMonth(year, mm) <= r1
                          /\ r1 < DaysBeforeMonth(year, mm) + DaysInMonth(year, mm)
             IN  <<year, m, r1 - DaysBeforeMonth(year, m) + 1>>

-----------------------------------------------------------------------------
(* parse_relative_date (youtube_to_zotero_converter.py)                    *)

W_prije == <<"p", "r", "i", "j", "e">>

W_ago == <<"a", "g", "o">>

W_year == <<"y", "e", "a", "r">>

W_month == <<"m", "o", "n", "t", "h">>

W_week == <<"w", "e", "e", "k">>

W_day == <<"d", "a", "y">>

W_hour == <<"h", "o", "u", "r">>

\* The replacements dict, in its insertion order.
Replacements ==
    << <<<<"g", "o", "d", "i", "n", "a">>, <<"y", "e", "a", "r", "s">>>>,
       <<<<"m", "j", "e", "s", "e", "c">>, <<"m", "o", "n", "t", "h", "s">>>>,
       <<<<"t", "j", "e", "d", "a", "n">>, <<"w", "e", "e", "k", "s">>>>,
       <<<<"d", "a", "n">>, <<"d", "a", "y", "s">>>>,
       <<<<"s", "a", "t">>, <<"h", "o", "u", "r", "s">>>>,
       <<<<"m", "i", "n", "u", "t">>, <<"m", "i", "n", "u", "t", "e", "s">>>> >>

RECURSIVE ApplyReplacements(_, _)
ApplyReplacements(s, table) ==
    IF table = <<>> THEN s
    ELSE LET key   == Head(table)[1]
             value == Head(table)[2]
         IN  ApplyReplacements(IF Contains(s, key) THEN Replace(s, key, value) ELSE s,
                               Tail(table))

RelNone == [kind |-> "none", parts |-> <<>>]

RelDate(p) == [kind |-> "date", parts |-> p]

\* An exception leaving parse_relative_date (OverflowError).
RelRaise == [kind |-> "raise", parts |-> <<>>]

\* base_date - timedelta(days=days, hours=hours), then .year, .month, .day.
\* timedelta refuses more than 999999999 days; the difference must be a date
\* of the years 1..9999.  base_date is [y, m, d, hour].
MinusDelta(base_date, days, hours) ==
    LET h    == ToOrdinal(base_date.y, base_date.m, base_date.d) * 24
                    + base_date.hour - (days * 24 + hours)
        ord  == h \div 24
        span == (days * 24 + hours) \div 24
    IN  IF span < -999999999 \/ span > 999999999 THEN RelRaise
        ELSE IF ord < MinOrdinal \/ ord > MaxOrdinal THEN RelRaise
        ELSE RelDate(FromOrdinal(ord))

parse_relative_date(relative_date_str, base_date) ==
    IF relative_date_str = <<>> THEN RelNone
    ELSE
    LET stripped == Strip(Replace(Lower(relative_date_str), W_prije, <<>>))
        replaced == ApplyReplacements(stripped, Replacements)
        parts    == SplitWs(replaced)
    IN  IF Len(parts) < 2 \/ ~Contains(parts[Len(parts)], W_ago) THEN RelNone
        ELSE LET n == ParseInt(parts[1])
             IN  IF ~n.ok THEN RelNone
                 ELSE LET value == n.v
                          unit  == parts[2]
                      IN  IF Contains(unit, W_year) THEN MinusDelta(base_date, 365 * value, 0)
                          ELSE IF Contains(unit, W_month) THEN MinusDelta(base_date, 30 * value, 0)
                          ELSE IF Contains(unit, W_week) THEN MinusDelta(base_date, 7 * value, 0)
                          ELSE IF Contains(unit, W_day) THEN MinusDelta(base_date, value, 0)
                          ELSE IF Contains(unit, W_hour) THEN MinusDelta(base_date, 0, value)
                          ELSE RelNone

-----------------------------------------------------------------------------
(* datetime.strptime for the two formats of the source, and strftime.      *)

MonthNames ==
    <<<<"j", "a", "n", "u", "a", "r", "y">>,
      <<"f", "e", "b", "r", "u", "a", "r", "y">>,
      <<"m", "a", "r", "c", "h">>,
      <<"a", "p", "r", "i", "l">>,
      <<"m", "a", "y">>,
      <<"j", "u", "n", "e">>,
      <<"j", "u", "l", "y">>,
      <<"a", "u", "g", "u", "s", "t">>,
      <<"s", "e", "p", "t", "e", "m", "b", "e", "r">>,
      <<"o", "c", "t", "o", "b", "e", "r">>,
      <<"n", "o", "v", "e", "m", "b", "e", "r">>,
      <<"d", "e", "c", "e", "m", "b", "e", "r">>>>

WeekdayAbbrs ==
    <<<<"m", "o", "n">>, <<"t", "u", "e">>, <<"w", "e", "d">>, <<"t", "h", "u">>, <<"f", "r", "i">>, <<"s", "a", "t">>, <<"s", "u", "n">>>>

IndexOf(seq, x) ==
    IF \E k \in 1..Len(seq) : seq[k] = x
    THEN CHOOSE k \in 1..Len(seq) : seq[k] = x
    ELSE 0

AllDigits(s) == \A k \in 1..Len(s) : IsDigit(s[k])

StrptimeFail == [ok |-> FALSE, y |-> 0, m |-> 0, d |-> 0]

\* The calendar check that ends strptime: datetime(y, m, d) must exist.
StrptimeDate(y, m, d) ==
    IF y >= 1 /\ m \in 1..12 /\ d >= 1 /\ d <= DaysInMonth(y, m)
    THEN [ok |-> TRUE, y |-> y, m |-> m, d |-> d]
    ELSE StrptimeFail

NoOuterSpace(s) == s # <<>> /\ ~IsSpace(s[1]) /\ ~IsSpace(s[Len(s)])

\* datetime.strptime(s, '%B %d, %Y'): "June 3, 2024".  ok = FALSE is ValueError.
StrptimeLongDate(s) ==
    LET w == SplitWs(s)
    IN  IF ~NoOuterSpace(s) \/ Len(w) # 3 THEN StrptimeFail
        ELSE LET m    == IndexOf(MonthNames, Lower(w[1]))
                 dtok == w[2]
                 day  == SubSeq(dtok, 1, Len(dtok) - 1)
             IN  IF /\ m # 0
                    /\ dtok # <<>> /\ dtok[Len(dtok)] = ","
                    /\ Len(day) \in {1, 2} /\ AllDigits(day)
                    /\ Len(w[3]) = 4 /\ AllDigits(w[3])
                 THEN StrptimeDate(DigitsValue(w[3], 0), m, DigitsValue(day, 0))
                 ELSE StrptimeFail

\* A two-digit field of at most `max`.
TwoDigitsUpTo(s, max) == Len(s) = 2 /\ AllDigits(s) /\ DigitsValue(s, 0) <= max

\* datetime.strptime(s, "%a %b %d %H:%M:%S %z %Y"):
\* "Thu Jan 16 14:43:16 +0000 2025".  ok = FALSE is ValueError.
StrptimeTwitter(s) ==
    LET w == SplitWs(s)
    IN  IF ~NoOuterSpace(s) \/ Len(w) # 6 THEN StrptimeFail
        ELSE LET wd  == IndexOf(WeekdayAbbrs, Lower(w[1]))
                 m   == IF Len(w[2]) = 3
                        THEN IndexOf([k \in 1..12 |-> SubSeq(MonthNames[k], 1, 3)], Lower(w[2]))
                        ELSE 0
                 hms == SplitOn(w[4], {":"})
                 off == w[5]
             IN  IF /\ wd # 0
                    /\ m # 0
                    /\ Len(w[3]) \in {1, 2} /\ AllDigits(w[3])
                    /\ Len(hms) = 3
                    /\ TwoDigitsUpTo(hms[1], 23)
                    /\ TwoDigitsUpTo(hms[2], 59)
                    /\ TwoDigitsUpTo(hms[3], 61)
                    /\ Len(off) = 5 /\ off[1] \in {"+", "-"} /\ AllDigits(Tail(off))
                    /\ Len(w[6]) = 4 /\ AllDigits(w[6])
                 THEN StrptimeDate(DigitsValue(w[6], 0), m, DigitsValue(w[3], 0))
                 ELSE StrptimeFail

\* A number written with at least two digits.
TwoDigits(n) == IF n < 10 THEN <<"0">> \o IntToText(n) ELSE IntToText(n)

\* dt.strftime("%Y-%m-%d")
StrftimeIso(y, m, d) == IntToText(y) \o <<"-">> \o TwoDigits(m) \o <<"-">> \o TwoDigits(d)

-----------------------------------------------------------------------------
(* csv.DictReader rows and urllib.parse.urlparse.                          *)

\* row[name] of a DictReader row: the header names the columns in order, a
\* row holds values for its first row.n columns, the columns it is too short
\* for map to None, and a name that is no column is a missing key.
Field(header, row, name) ==
    IF IndexOf(header, name) = 0 THEN Absent
    ELSE IF IndexOf(header, name) > row.n THEN None
    ELSE Str(row.v[name])

\* The first index k >= from with s[k] in cs, Len(s) + 1 if there is none.
RECURSIVE FirstOf(_, _, _)
FirstOf(s, cs, from) ==
    IF from > Len(s) THEN Len(s) + 1
    ELSE IF s[from] \in cs THEN from
    ELSE FirstOf(s, cs, from + 1)

\* urlparse(url).hostname: [ok, host]; ok = FALSE is ValueError ("Invalid
\* IPv6 URL"), host is None when the URL has no network location.  URLs of
\* the model carry no user, password or port.
UrlHostname(url) ==
    LET colon  == FirstOf(url, {":"}, 1)
        rest   == IF colon <= Len(url) /\ colon > 1
                     /\ \A k \in 1..(colon - 1) : IndexOf(LowerLetters, LowerChar(url[k])) # 0
                  THEN SubSeq(url, colon + 1, Len(url))
                  ELSE url
        hasNet == MatchAt(rest, <<"/", "/">>, 1)
        stop   == FirstOf(rest, {"/", "?", "#"}, 3)
        netloc == IF hasNet THEN SubSeq(rest, 3, stop - 1) ELSE <<>>
    IN  IF hasNet /\ (Contains(netloc, <<"[">>) # Contains(netloc, <<"]">>))
        THEN [ok |-> FALSE, host |-> None]
        ELSE [ok |-> TRUE, host |-> IF netloc = <<>> THEN None ELSE Str(Lower(netloc))]

-----------------------------------------------------------------------------
(* What the body of a driver's loop does with one record: it appends an    *)
(* item, skips the record (`continue`, with the diagnostic it prints, "" if *)
(* it prints none), or raises.                                             *)

Emit(item) == [kind |-> "item", item |-> item, msg |-> "", exn |-> ""]

Skip(msg) == [kind |-> "skip", item |-> <<>>, msg |-> msg, exn |-> ""]

Raise(exn) == [kind |-> "raise", item |-> <<>>, msg |-> "", exn |-> exn]

-----------------------------------------------------------------------------
(* podcast_to_zotero_converter.py: the loop body of                         *)
(* convert_csv_to_zotero_json.                                             *)

T_NoTitle == <<"N", "o", " ", "T", "i", "t", "l", "e">>

\* Lines 25-57: the URL, its host, and the item.
PodcastUrlStep(header, row, issued_date_parts) ==
    LET url == Field(header, row, "href")
    IN  IF url.k = "absent" THEN Skip("url missing")
        ELSE IF ~Truthy(url) THEN Skip("url empty")
        ELSE LET parsed == UrlHostname(url.s)
             IN  IF ~parsed.ok THEN Raise("ValueError")
                 ELSE Emit([title  |-> Get(Field(header, row, "title"), Str(T_NoTitle)),
                            URL    |-> url.s,
                            source |-> parsed.host,
                            issued |-> issued_date_parts])

\* Lines 17-57.  strptime(None, ...) is a TypeError, which the handler of
\* line 21 (ValueError, KeyError) does not catch.
PodcastRow(header, row) ==
    LET date_str == Field(header, row, "date")
    IN  IF date_str.k = "absent" THEN Skip("date error")
        ELSE IF date_str.k = "none" THEN Raise("TypeError")
        ELSE LET issued_date == StrptimeLongDate(date_str.s)
             IN  IF ~issued_date.ok THEN Skip("date error")
                 ELSE PodcastUrlStep(header, row,
                                     <<issued_date.y, issued_date.m, issued_date.d>>)

-----------------------------------------------------------------------------
(* news_to_zotero_converter.py: the loop body of convert_csv_to_csl_json.   *)

T_Lisa == <<"L", "i", "s", "a">>

T_Feldman == <<"F", "e", "l", "d", "m", "a", "n">>

T_Barrett == <<"B", "a", "r", "r", "e", "t", "t">>

T_NoneText == <<"N", "o", "n", "e">>

\* f"{value}" of an optional text: None is written "None".
Format(v) == IF v.k = "none" THEN T_NoneText ELSE v.s

\* Lines 21-36: the item of a row that is kept.
NewsItem(header, row, title) ==
    [title  |-> title,
     URL    |-> Field(header, row, "url"),
     author |-> <<[given  |-> Get(Field(header, row, "highlight"), Str(T_Lisa)),
                   family |-> Strip(Format(Get(Field(header, row, "highlight 2"), Str(T_Feldman)))
                                    \o <<" ">>
                                    \o Format(Get(Field(header, row, "highlight 3"), Str(T_Barrett))))]>>]

\* Line 18 with `and` for its `or`: a row is skipped only when it has neither
\* a URL nor a title.
NewsRowSkipsOnlyIfBoth(header, row) ==
    LET result == Get(Field(header, row, "result"), Str(<<>>))
    IN  IF result.k = "none" THEN Raise("AttributeError")
        ELSE LET title == Strip(LStripSet(result.s, {"|", " "}))
             IN  IF ~Truthy(Field(header, row, "url")) /\ title = <<>> THEN Skip("")
                 ELSE Emit(NewsItem(header, row, title))

\* Lines 15-37.  row.get('result', '') is None for a row too short for the
\* column, and None has no lstrip.
NewsRow(header, row) ==
    LET result == Get(Field(header, row, "result"), Str(<<>>))
    IN  IF result.k = "none" THEN Raise("AttributeError")
        ELSE LET title == Strip(LStripSet(result.s, {"|", " "}))
             IN  IF ~Truthy(Field(header, row, "url")) \/ title = <<>> THEN Skip("")
                 ELSE Emit(NewsItem(header, row, title))

-----------------------------------------------------------------------------
(* twitter_to_zotero_converter.py                                          *)

\* parse_date: [exn, s].  strptime(None, ...) is a TypeError, which the
\* handler of line 52 (ValueError) does not catch.
parse_date(date_str) ==
    IF date_str.k = "none" THEN [exn |-> "TypeError", s |-> <<>>]
    ELSE LET dt == StrptimeTwitter(date_str.s)
         IN  IF dt.ok THEN [exn |-> "", s |-> StrftimeIso(dt.y, dt.m, dt.d)]
             ELSE [exn |-> "", s |-> date_str.s]

\* convert_tweet_to_zotero_item, lines 55-96: the id, title and issued date
\* of the item.  int(p) of line 79 is a ValueError for a part that is no
\* integer literal.
convert_tweet_to_zotero_item(tweet) ==
    LET title       == clean_text(Get(tweet.full_text, Str(<<>>)))
        date_issued == parse_date(Get(tweet.created_at, Str(<<>>)))
        parts       == SplitOn(date_issued.s, {"-"})
        ints        == [k \in 1..Len(parts) |-> ParseInt(parts[k])]
    IN  IF date_issued.exn # "" THEN Raise(date_issued.exn)
        ELSE IF \E k \in 1..Len(parts) : ~ints[k].ok THEN Raise("ValueError")
        ELSE Emit([id     |-> tweet.id,
                   title  |-> title,
                   issued |-> [k \in 1..Len(parts) |-> ints[k].v]])

-----------------------------------------------------------------------------
(* youtube_to_zotero_converter.py                                          *)

\* get_simple_text(video, key): "" unless the key holds a simpleText.
get_simple_text(v) == IF v.k = "str" THEN v.s ELSE <<>>

\* convert_video_to_zotero_item, lines 81-119: None for a video without a
\* videoId; the item's id, accessed date and, when it resolves, issued date.
convert_video_to_zotero_item(video, base_date) ==
    IF ~Truthy(video.videoId) THEN Skip("")
    ELSE LET issued_date == parse_relative_date(get_simple_text(video.publishedTimeText),
                                                base_date)
         IN  IF issued_date.kind = "raise" THEN Raise("OverflowError")
             ELSE Emit([id       |-> video.videoId.s,
                        accessed |-> <<base_date.y, base_date.m, base_date.d>>,
                        issued   |-> issued_date])

-----------------------------------------------------------------------------
(* grant_to_zotero_converter.py: the loop body of convert_grants_to_csl.    *)

\* Lines 56-64: the issued date of a row, None (RelNone) when the field is
\* empty, has not three parts, or has a part that is no integer literal.
GrantIssued(start) ==
    IF ~Truthy(start) THEN RelNone
    ELSE LET date_parts == SplitOn(start.s, {"/", ".", "-"})
             ints       == [k \in 1..Len(date_parts) |-> ParseInt(date_parts[k])]
         IN  IF Len(date_parts) # 3 THEN RelNone
             ELSE IF \E k \in 1..3 : ~ints[k].ok THEN RelNone
             ELSE RelDate(<<ints[3].v, ints[1].v, ints[2].v>>)

UpperChar(c) ==
    IF \E k \in 1..Len(LowerLetters) : LowerLetters[k] = c
    THEN UpperLetters[CHOOSE k \in 1..Len(LowerLetters) : LowerLetters[k] = c]
    ELSE c

IsLetter(c) == UpperChar(c) # c \/ LowerChar(c) # c

\* s.capitalize(): the first character upper-cased, the rest lower-cased.
Capitalize(s) == [k \in 1..Len(s) |-> IF k = 1 THEN UpperChar(s[k]) ELSE LowerChar(s[k])]

\* s.title(): a letter is upper-cased when no letter precedes it, lower-cased
\* otherwise.
Title(s) ==
    [k \in 1..Len(s) |->
        IF k = 1 \/ ~IsLetter(s[k - 1]) THEN UpperChar(s[k]) ELSE LowerChar(s[k])]

\* ' '.join(words)
RECURSIVE JoinSpace(_)
JoinSpace(words) ==
    IF words = <<>> THEN <<>>
    ELSE IF Len(words) = 1 THEN words[1]
    ELSE words[1] \o <<" ">> \o JoinSpace(Tail(words))

\* Lines 14-15: ' '.join([n.capitalize() for n in part.split()])
CapitalizeWords(part) ==
    LET ws == SplitWs(part)
    IN  JoinSpace([k \in 1..Len(ws) |-> Capitalize(ws[k])])

StructuredName(family, given) ==
    [variant |-> "structured", family |-> family, given |-> given, literal |-> <<>>]

LiteralName(literal) ==
    [variant |-> "literal", family |-> <<>>, given |-> <<>>, literal |-> literal]

\* parse_name, lines 7-19.  split(',', 1) cuts at the first comma.
parse_name(name_str) ==
    IF \E k \in 1..Len(name_str) : name_str[k] = ","
    THEN LET c == CHOOSE k \in 1..Len(name_str) :
                      /\ name_str[k] = ","
                      /\ \A j \in 1..(k - 1) : name_str[j] # ","
             family == Strip(SubSeq(name_str, 1, c - 1))
             given  == Strip(SubSeq(name_str, c + 1, Len(name_str)))
         IN  StructuredName(CapitalizeWords(family), CapitalizeWords(given))
    ELSE LiteralName(Title(Strip(name_str)))

T_NotApplicable == <<"n", "o", "t", " ", "a", "p", "p", "l", "i", "c", "a", "b", "l", "e">>

\* Line 52: pi.strip() and pi.strip().lower() != 'not applicable'
KeepsOtherPi(pi) == Strip(pi) # <<>> /\ Lower(Strip(pi)) # T_NotApplicable

\* Lines 45-53: the author list of a row.
GrantAuthors(contact, other) ==
    LET first     == IF Truthy(contact) THEN <<parse_name(contact.s)>> ELSE <<>>
        other_pis == IF Truthy(other) THEN SplitOn(other.s, {";"}) ELSE <<>>
        kept      == SelectSeq(other_pis, KeepsOtherPi)
    IN  first \o [k \in 1..Len(kept) |-> parse_name(kept[k])]

\* Lines 44-96: every row gives an item.
GrantRow(row) ==
    Emit([id     |-> Get(row.id, Str(<<>>)),
          author |-> GrantAuthors(Get(row.contact, None), Get(row.other, None)),
          issued |-> GrantIssued(Get(row.start, None))])

-----------------------------------------------------------------------------
(* Input files.                                                            *)

MaxRecords == 3

MaxCalls == 2

\* All sequences over S of length at most n.
SeqsUpTo(S, n) == UNION {[1..k -> S] : k \in 0..n}

\* A path at which there is no file.
MissingFile == [exists |-> FALSE, valid |-> FALSE, header |-> <<>>, rows |-> <<>>]

\* A file that is not what the driver expects: no JSON, or a CSV without the
\* header row the grant driver looks for.
InvalidFile == [exists |-> TRUE, valid |-> FALSE, header |-> <<>>, rows |-> <<>>]

FilesOf(headers, rowset) ==
    {MissingFile} \cup
    {[exists |-> TRUE, valid |-> TRUE, header |-> h, rows |-> rs] :
        h \in headers, rs \in SeqsUpTo(rowset, MaxRecords)}

PodcastHeaders ==
    {<<"title", "date", "href">>, <<"title", "href", "date">>,
     <<"title", "date">>, <<"title", "href">>}

PodcastRows ==
    {[n |-> 3, v |-> [title |-> <<"A">>, date |-> <<"J", "u", "n", "e", " ", "3", ",", " ", "2", "0", "2", "4">>, href |-> <<"h", "t", "t", "p", ":", "/", "/", "a", ".", "c", "o", "m", "/", "x">>]],
     [n |-> 3, v |-> [title |-> <<"B">>, date |-> <<"J", "u", "n", "e", " ", "4", ",", " ", "2", "0", "2", "4">>, href |-> <<"h", "t", "t", "p", ":", "/", "/", "a", ".", "c", "o", "m", "/", "x">>]],
     [n |-> 3, v |-> [title |-> <<"A">>, date |-> <<"2", "0", "2", "5", "-", "0", "1", "-", "1", "6">>, href |-> <<"h", "t", "t", "p", ":", "/", "/", "a", ".", "c", "o", "m", "/", "x">>]],
     [n |-> 3, v |-> [title |-> <<"A">>, date |-> <<"F", "e", "b", "r", "u", "a", "r", "y", " ", "3", "0", ",", " ", "2", "0", "2", "4">>, href |-> <<"h", "t", "t", "p", ":", "/", "/", "a", ".", "c", "o", "m", "/", "x">>]],
     [n |-> 3, v |-> [title |-> <<"A">>, date |-> <<"J", "u", "n", "e", " ", "3", ",", " ", "2", "0", "2", "4">>, href |-> <<>>]],
     [n |-> 2, v |-> [title |-> <<"B">>, date |-> <<"J", "u", "n", "e", " ", "3", ",", " ", "2", "0", "2", "4">>, href |-> <<"h", "t", "t", "p", ":", "/", "/", "a", ".", "c", "o", "m", "/", "x">>]],
     [n |-> 3, v |-> [title |-> <<"A">>, date |-> <<"J", "u", "n", "e", " ", "3", ",", " ", "2", "0", "2", "4">>, href |-> <<"h", "t", "t", "p", ":", "/", "/", "[", "a", ".", "c", "o", "m", "/", "x">>]]}

PodcastFiles == FilesOf(PodcastHeaders, PodcastRows)

NewsHeaders ==
    {<<"url", "result">>, <<"result", "url">>, <<"result", "url", "highlight">>,
     <<"result">>, <<"url">>}

NewsRows ==
    {[n |-> 2, v |-> [result |-> <<"|", " ", "T">>, url |-> <<"h", "t", "t", "p", ":", "/", "/", "n", "/", "1">>, highlight |-> <<"A">>]],
     [n |-> 3, v |-> [result |-> <<"S">>, url |-> <<"h", "t", "t", "p", ":", "/", "/", "n", "/", "2">>, highlight |-> <<"B">>]],
     [n |-> 2, v |-> [result |-> <<"|", " ">>, url |-> <<"h", "t", "t", "p", ":", "/", "/", "n", "/", "1">>, highlight |-> <<"A">>]],
     [n |-> 2, v |-> [result |-> <<"\t", "|">>, url |-> <<"h", "t", "t", "p", ":", "/", "/", "n", "/", "1">>, highlight |-> <<"A">>]],
     [n |-> 2, v |-> [result |-> <<"S">>, url |-> <<>>, highlight |-> <<"A">>]],
     [n |-> 1, v |-> [result |-> <<"S">>, url |-> <<"h", "t", "t", "p", ":", "/", "/", "n", "/", "2">>, highlight |-> <<"A">>]]}

NewsFiles == FilesOf(NewsHeaders, NewsRows)

\* Tweets are JSON objects: a key is missing, null or a text.
TweetRows ==
    {[id |-> 1, full_text |-> Str(<<" ", "x", " ", " ", "&", "a", "m", "p", ";", " ", "y">>), created_at |-> Str(<<"T", "h", "u", " ", "J", "a", "n", " ", "1", "6", " ", "1", "4", ":", "4", "3", ":", "1", "6", " ", "+", "0", "0", "0", "0", " ", "2", "0", "2", "5">>)],
     [id |-> 2, full_text |-> None, created_at |-> Str(<<"F", "r", "i", " ", "J", "a", "n", " ", "1", "7", " ", "0", "9", ":", "0", "5", ":", "0", "0", " ", "+", "0", "0", "0", "0", " ", "2", "0", "2", "5">>)],
     [id |-> 3, full_text |-> Absent, created_at |-> Str(<<"2", "0", "2", "5", "-", "0", "1", "-", "1", "6">>)],
     [id |-> 4, full_text |-> Absent, created_at |-> Str(<<"y", "e", "s", "t", "e", "r", "d", "a", "y">>)],
     [id |-> 6, full_text |-> Absent, created_at |-> Absent],
     [id |-> 7, full_text |-> Absent, created_at |-> None]}

TwitterFiles == {InvalidFile} \cup FilesOf({<<>>}, TweetRows)

VideoRows ==
    {[videoId |-> Str(<<"A">>), publishedTimeText |-> Str(<<"2", " ", "m", "o", "n", "t", "h", "s", " ", "a", "g", "o">>)],
     [videoId |-> Str(<<"B">>), publishedTimeText |-> Absent],
     [videoId |-> Absent, publishedTimeText |-> Str(<<"2", " ", "m", "o", "n", "t", "h", "s", " ", "a", "g", "o">>)],
     [videoId |-> Str(<<>>), publishedTimeText |-> Absent],
     [videoId |-> Str(<<"C">>), publishedTimeText |-> Str(<<"3", "0", "0", "0", " ", "y", "e", "a", "r", "s", " ", "a", "g", "o">>)],
     [videoId |-> Str(<<"D">>), publishedTimeText |-> Str(<<"p", "r", "i", "j", "e", " ", "1", " ", "g", "o", "d", "i", "n", "a">>)]}

YouTubeFiles == {InvalidFile} \cup FilesOf({<<>>}, VideoRows)

\* The base_date the YouTubeToZoteroConverter is constructed with.
YouTubeBaseDate == [y |-> 2024, m |-> 6, d |-> 15, hour |-> 0]

GrantRows ==
    {[id |-> Str(<<"A">>), start |-> Str(<<"0", "3", "/", "1", "5", "/", "2", "0", "2", "4">>),
      contact |-> Str(<<"S", "M", "I", "T", "H", ",", " ", "J", "A", "N", "E", " ", "A">>),
      other |-> Str(<<"D", "O", "E", ",", " ", "J", "O", "H", "N", ";", " ", "N", "o", "t", " ", "A", "p", "p", "l", "i", "c", "a", "b", "l", "e">>)],
     [id |-> Str(<<"B">>), start |-> Str(<<"1", "3", "/", "4", "5", "/", "2", "0", "2", "4">>),
      contact |-> Str(<<" ", " ", " ">>),
      other |-> Str(<<>>)],
     [id |-> Str(<<"C">>), start |-> Str(<<"n", "o", "t", "-", "a", "-", "d", "a", "t", "e">>),
      contact |-> Str(<<",">>),
      other |-> Str(<<"n", "o", "t", " ", "a", "p", "p", "l", "i", "c", "a", "b", "l", "e">>)],
     [id |-> Str(<<"D">>), start |-> Str(<<"3", ".", "4", "-", "2", "0", "2", "4">>),
      contact |-> Str(<<"a", "c", "m", "e", " ", "l", "a", "b">>),
      other |-> Str(<<" ", ";", " ", "L", "E", "E", ",", " ", "B", "O", ";", " ", " ", ",", " ">>)],
     [id |-> Str(<<"A">>), start |-> Str(<<"1", "/", "2">>),
      contact |-> Str(<<>>),
      other |-> Str(<<"o", "'", "n", "e", "i", "l", " ", "a", "l", ";", "x", ",", " ", "y">>)],
     [id |-> Str(<<"B">>), start |-> Str(<<>>),
      contact |-> Str(<<"D", "O", "E", ",", " ", "J", "O", "H", "N">>),
      other |-> None],
     [id |-> None, start |-> None, contact |-> None, other |-> None],
     [id |-> Absent, start |-> Absent, contact |-> Absent, other |-> Absent]}

GrantFiles == {InvalidFile} \cup FilesOf({<<"NIH Spending Categorization">>}, GrantRows)

-----------------------------------------------------------------------------
(* The system clock read by datetime.now().  Only the day matters to the    *)
(* converters, so the clock is the ordinal of the current day; a run may    *)
(* pass midnight of the last day of a year.                                 *)

\* The days the clock can show during a run.
ClockDays == {ToOrdinal(2024, 12, 31), ToOrdinal(2025, 1, 1)}

\* The day on which a run starts.
ClockStarts == {ToOrdinal(2024, 12, 31)}

\* The days the clock can show at or after the day t.
Later(t) == {u \in ClockDays : u >= t}

\* podcast lines 36-37: today = datetime.now(); [today.year, today.month,
\* today.day], one reading of the clock.
PodcastAccessed(today) == FromOrdinal(today)

\* twitter lines 83-85: [datetime.now().year, datetime.now().month,
\* datetime.now().day], three readings of the clock in this order.
TweetAccessed(t1, t2, t3) ==
    <<FromOrdinal(t1)[1], FromOrdinal(t2)[2], FromOrdinal(t3)[3]>>

-----------------------------------------------------------------------------
(* The batch drivers.  pc is "idle" before a call, "loop" while the records  *)
(* are processed, "done" after the output file was written, "error" when    *)
(* the call printed an error and returned, "crashed" when an exception left *)
(* the call.                                                               *)

Mappers == {"grant", "news", "podcast", "twitter", "youtube"}

Init ==
    /\ mapper \in Mappers
    /\ pc = "idle"
    /\ calls = 0
    /\ seen = 0
    /\ input = MissingFile
    /\ exc = ""
    /\ i = 0
    /\ items = <<>>
    /\ out = [exists |-> FALSE, data |-> <<>>]
    /\ opened = FALSE
    /\ diag = <<>>
    /\ now \in ClockStarts
    /\ accessed = <<>>
    /\ arg = <<>>
    /\ ret = <<>>

\* A call starts on the file f.
Begin(f) ==
    /\ Len(f.rows) + seen <= MaxRecords
    /\ calls' = calls + 1
    /\ seen' = seen + Len(f.rows)
    /\ input' = f
    /\ i' = 0
    /\ opened' = FALSE
    /\ UNCHANGED <<mapper, out, now, pureVars>>

\* The call ends without the loop having started.
EndEarly(state, exn, msg) ==
    /\ pc' = state
    /\ exc' = exn
    /\ diag' = IF msg = "" THEN <<>> ELSE <<[msg |-> msg, row |-> 0]>>

EnterLoop ==
    /\ pc' = "loop"
    /\ exc' = ""
    /\ diag' = <<>>

\* The loop body has run on record i + 1 with outcome r.  An exception is
\* caught by the handlers of convert_file (caught), or leaves the function.
Step(r, caught) ==
    /\ pc = "loop"
    /\ i < Len(input.rows)
    /\ CASE r.kind = "item" ->
              /\ items' = Append(items, r.item)
              /\ i' = i + 1
              /\ UNCHANGED <<pc, exc, diag>>
         [] r.kind = "skip" ->
              /\ i' = i + 1
              /\ diag' = IF r.msg = "" THEN diag
                         ELSE Append(diag, [msg |-> r.msg, row |-> i + 1])
              /\ UNCHANGED <<items, pc, exc>>
         [] r.kind = "raise" ->
              /\ pc' = IF caught THEN "error" ELSE "crashed"
              /\ exc' = r.exn
              /\ diag' = IF caught THEN Append(diag, [msg |-> "error", row |-> i + 1])
                         ELSE diag
              /\ UNCHANGED <<i, items>>
    /\ UNCHANGED <<mapper, calls, seen, input, out, opened, pureVars>>

\* json.dump of the accumulated items, after the loop.
Save ==
    /\ pc = "loop"
    /\ i = Len(input.rows)
    /\ out' = [exists |-> TRUE, data |-> items]
    /\ opened' = TRUE
    /\ pc' = "done"
    /\ UNCHANGED <<mapper, calls, seen, input, exc, i, items, diag, now, accessed, pureVars>>

\* The dump moved into the loop: the file is rewritten after every record.
SaveInsideLoop ==
    /\ pc = "loop"
    /\ i >= 1
    /\ out' = [exists |-> TRUE, data |-> items]
    /\ opened' = TRUE
    /\ pc' = IF i = Len(input.rows) THEN "done" ELSE "loop"
    /\ UNCHANGED <<mapper, calls, seen, input, exc, i, items, diag, now, accessed, pureVars>>

\* convert_grants_to_csl, lines 25-38
GrantOpen ==
    /\ mapper = "grant"
    /\ pc = "idle"
    /\ \E f \in GrantFiles :
          /\ Begin(f)
          /\ items' = <<>>
          /\ accessed' = <<>>
          /\ IF ~f.exists THEN EndEarly("crashed", "FileNotFoundError", "")
             ELSE IF ~f.valid THEN EndEarly("error", "", "no header row")
             ELSE EnterLoop

\* lines 44-96
GrantStep ==
    /\ mapper = "grant"
    /\ Step(GrantRow(input.rows[i + 1]), FALSE)
    /\ UNCHANGED <<now, accessed>>

\* lines 98-101
GrantWrite == mapper = "grant" /\ Save

\* convert_csv_to_csl_json, lines 10-12
NewsOpen ==
    /\ mapper = "news"
    /\ pc = "idle"
    /\ \E f \in NewsFiles :
          /\ Begin(f)
          /\ items' = <<>>
          /\ accessed' = <<>>
          /\ IF ~f.exists THEN EndEarly("crashed", "FileNotFoundError", "")
             ELSE EnterLoop

\* lines 13-37
NewsStep ==
    /\ mapper = "news"
    /\ Step(NewsRow(input.header, input.rows[i + 1]), FALSE)
    /\ UNCHANGED <<now, accessed>>

\* lines 39-42
NewsWrite == mapper = "news" /\ Save

\* convert_csv_to_zotero_json, lines 12-15
PodcastOpen ==
    /\ mapper = "podcast"
    /\ pc = "idle"
    /\ \E f \in PodcastFiles :
          /\ Begin(f)
          /\ items' = <<>>
          /\ accessed' = <<>>
          /\ IF ~f.exists THEN EndEarly("crashed", "FileNotFoundError", "")
             ELSE EnterLoop

\* lines 16-57.  A row that is not skipped reads the clock once (line 36).
PodcastStep ==
    /\ mapper = "podcast"
    /\ LET r == PodcastRow(input.header, input.rows[i + 1])
       IN  /\ Step(r, FALSE)
           /\ IF r.kind = "item"
              THEN \E today \in Later(now) :
                      /\ accessed' = Append(accessed, PodcastAccessed(today))
                      /\ now' = today
              ELSE UNCHANGED <<now, accessed>>

\* lines 59-62
PodcastWrite == mapper = "podcast" /\ Save

\* TwitterToZoteroConverter.convert_file, lines 140-146 and 163-166.  The
\* converter may be called again: self.output_data is set in __init__ only.
TwitterOpen ==
    /\ mapper = "twitter"
    /\ pc \in {"idle", "done", "error"}
    /\ calls < MaxCalls
    /\ \E f \in TwitterFiles :
          /\ Begin(f)
          /\ UNCHANGED <<items, accessed>>
          /\ IF ~f.exists THEN EndEarly("error", "FileNotFoundError", "file not found")
             ELSE IF ~f.valid THEN EndEarly("error", "JSONDecodeError", "not valid JSON")
             ELSE EnterLoop

\* lines 149-154 and 167-168.  A tweet that is converted reads the clock
\* three times (lines 83-85), after the issued date of line 79 was built; the
\* clock may advance between the reads.
TwitterStep ==
    /\ mapper = "twitter"
    /\ LET r == convert_tweet_to_zotero_item(input.rows[i + 1])
       IN  /\ Step(r, TRUE)
           /\ IF r.kind = "item"
              THEN \E t1 \in Later(now) : \E t2 \in Later(t1) : \E t3 \in Later(t2) :
                      /\ accessed' = Append(accessed, TweetAccessed(t1, t2, t3))
                      /\ now' = t3
              ELSE UNCHANGED <<now, accessed>>

\* The dump of lines 157-159 indented into the loop of line 149.
TwitterWriteInsideLoop == mapper = "twitter" /\ SaveInsideLoop

\* lines 157-161
TwitterWrite == mapper = "twitter" /\ Save

\* YouTubeToZoteroConverter.convert_file, lines 123-129 and 147-150
YouTubeOpen ==
    /\ mapper = "youtube"
    /\ pc \in {"idle", "done", "error"}
    /\ calls < MaxCalls
    /\ \E f \in YouTubeFiles :
          /\ Begin(f)
          /\ UNCHANGED <<items, accessed>>
          /\ IF ~f.exists THEN EndEarly("error", "FileNotFoundError", "file not found")
             ELSE IF ~f.valid THEN EndEarly("error", "JSONDecodeError", "not valid JSON")
             ELSE EnterLoop

\* lines 132-138 and 151-152
YouTubeStep ==
    /\ mapper = "youtube"
    /\ Step(convert_video_to_zotero_item(input.rows[i + 1], YouTubeBaseDate), TRUE)
    /\ UNCHANGED <<now, accessed>>

\* lines 141-145
YouTubeWrite == mapper = "youtube" /\ Save

Next ==
    \/ GrantOpen \/ GrantStep \/ GrantWrite
    \/ NewsOpen \/ NewsStep \/ NewsWrite
    \/ PodcastOpen \/ PodcastStep \/ PodcastWrite
    \/ TwitterOpen \/ TwitterStep \/ TwitterWrite
    \/ YouTubeOpen \/ YouTubeStep \/ YouTubeWrite

Spec == Init /\ [][Next]_vars

-----------------------------------------------------------------------------
(* The state while no batch driver runs (the pure-function checks).        *)

BatchIdle ==
    /\ mapper = "none"
    /\ pc = "idle"
    /\ calls = 0
    /\ seen = 0
    /\ input = MissingFile
    /\ exc = ""
    /\ i = 0
    /\ items = <<>>
    /\ out = [exists |-> FALSE, data |-> <<>>]
    /\ opened = FALSE
    /\ diag = <<>>
    /\ now = ToOrdinal(2024, 6, 15)
    /\ accessed = <<>>

-----------------------------------------------------------------------------
(* clean_text applied to a text, then to its own result.                   *)

MaxFrags == 3

MaxPasses == 2

CleanFrags ==
    {<<"&">>, <<"a", "m", "p", ";">>, <<"l", "t", ";">>, <<"g", "t", ";">>,
     <<" ">>, <<"\n">>, <<"x">>}

CleanInputs ==
    {None} \cup {Str(Flatten(fs)) : fs \in SeqsUpTo(CleanFrags, MaxFrags)}

InitClean ==
    /\ BatchIdle
    /\ arg \in {[fn |-> "clean_text", text |-> v] : v \in CleanInputs}
    /\ ret = <<>>

\* One more call of clean_text, on the text or on the previous result.
CleanStep ==
    /\ arg.fn = "clean_text"
    /\ Len(ret) < MaxPasses
    /\ ret' = Append(ret, clean_text(IF ret = <<>> THEN arg.text ELSE Str(ret[Len(ret)])))
    /\ UNCHANGED <<arg, batchVars>>

NextClean == CleanStep

SpecClean == InitClean /\ [][NextClean]_vars

-----------------------------------------------------------------------------
(* parse_relative_date applied to "<prefix><magnitude> <unit>[ <tail>]".   *)

MaxMagnitude == 12

\* Magnitudes: the text, whether it is a non-negative integer literal, its value.
RelMagnitudes ==
    {[s |-> IntToText(n), isint |-> TRUE, n |-> n] : n \in (0..MaxMagnitude) \cup {3000}}
    \cup {[s |-> <<"1", ".", "5">>, isint |-> FALSE, n |-> 0],
          [s |-> <<"a">>, isint |-> FALSE, n |-> 0]}

\* Units: the text, its class, and the days one unit stands for.
RelUnits ==
    {[s |-> W_year, class |-> "english", days |-> 365],
     [s |-> W_year \o <<"s">>, class |-> "english", days |-> 365],
     [s |-> W_month, class |-> "english", days |-> 30],
     [s |-> W_month \o <<"s">>, class |-> "english", days |-> 30],
     [s |-> W_week \o <<"s">>, class |-> "english", days |-> 7],
     [s |-> W_day, class |-> "english", days |-> 1],
     [s |-> W_day \o <<"s">>, class |-> "english", days |-> 1],
     [s |-> W_hour \o <<"s">>, class |-> "hour", days |-> 0],
     [s |-> <<"f", "o", "r", "t", "n", "i", "g", "h", "t", "s">>, class |-> "unknown", days |-> 0],
     [s |-> <<"g", "o", "d", "i", "n", "a">>, class |-> "foreign", days |-> 365],
     [s |-> <<"m", "j", "e", "s", "e", "c">>, class |-> "foreign", days |-> 30],
     [s |-> <<"t", "j", "e", "d", "a", "n">>, class |-> "foreign", days |-> 7],
     [s |-> <<"d", "a", "n">>, class |-> "foreign", days |-> 1]}

RelTails == {<<>>, W_ago, <<"l", "a", "g", "o", "o", "n">>, <<"n", "o", "w">>}

RelPrefixes == {<<>>, W_prije \o <<" ">>}

BaseDates ==
    {b \in [y : {2024, 2025}, m : {1, 3, 6}, d : {1, 15, 31}, hour : {0, 13}] :
        b.d <= DaysInMonth(b.y, b.m)}

RelText(a) ==
    a.prefix \o a.mag.s \o <<" ">> \o a.unit.s
        \o (IF a.tail = <<>> THEN <<>> ELSE <<" ">> \o a.tail)

InitRelative ==
    /\ BatchIdle
    /\ arg \in [fn : {"parse_relative_date"}, prefix : RelPrefixes, mag : RelMagnitudes,
                unit : RelUnits, tail : RelTails, base : BaseDates]
    /\ ret = <<>>

RelStep ==
    /\ arg.fn = "parse_relative_date"
    /\ ret = <<>>
    /\ ret' = <<parse_relative_date(RelText(arg), arg.base)>>
    /\ UNCHANGED <<arg, batchVars>>

NextRelative == RelStep

SpecRelative == InitRelative /\ [][NextRelative]_vars

-----------------------------------------------------------------------------
(* Claims about the pure functions.                                        *)

RelDone == ret # <<>> /\ arg.fn = "parse_relative_date"

RelBaseOrdinal == ToOrdinal(arg.base.y, arg.base.m, arg.base.d)

\* The result is the date lying `days` days before the reference date.
RelIsDaysBefore(r, days) ==
    /\ r.kind = "date"
    /\ r.parts[2] \in 1..12
    /\ r.parts[3] \in 1..DaysInMonth(r.parts[1], r.parts[2])
    /\ ToOrdinal(r.parts[1], r.parts[2], r.parts[3]) = RelBaseOrdinal - days

\* C5: a string with the locale prefix and a foreign unit word of the
\* translation table ("prije 1 godina") resolves to a non-null date, the
\* reference date minus the unit's days; for "prije 1 godina" at 2024-06-15
\* that is the date 365 days earlier.
C5_LocaleStringResolves ==
    (/\ RelDone
     /\ arg.prefix # <<>>
     /\ arg.unit.class = "foreign"
     /\ arg.mag.isint /\ arg.mag.n <= MaxMagnitude
     /\ arg.tail = <<>>)
    => RelIsDaysBefore(ret[1], arg.unit.days * arg.mag.n)

\* C6: "N <unit> ago" gives the reference date minus 365*N, 30*N, 7*N or N
\* days for every non-negative integer N; a non-integer magnitude, an
\* unrecognized unit or a string that does not end in "ago" gives null.
C6_RelativeArithmetic ==
    (RelDone /\ arg.prefix = <<>>)
    => /\ (arg.mag.isint /\ arg.unit.class = "english" /\ arg.tail = W_ago)
              => RelIsDaysBefore(ret[1], arg.unit.days * arg.mag.n)
       /\ (~arg.mag.isint \/ arg.unit.class = "unknown" \/ arg.tail # W_ago)
              => ret[1] = RelNone

\* C8: clean_text(clean_text(x)) = clean_text(x) for every text x.
C8_CleanTextIdempotent ==
    (arg.fn = "clean_text" /\ Len(ret) >= 2) => ret[2] = ret[1]

-----------------------------------------------------------------------------
(* Claims about the batch drivers.                                         *)

\* The call read its input file and entered the loop.
Loaded == input.exists /\ input.valid

\* The loop body of the running driver on one record.
RowOutcome(header, row) ==
    CASE mapper = "grant" -> GrantRow(row)
      [] mapper = "news" -> NewsRow(header, row)
      [] mapper = "podcast" -> PodcastRow(header, row)
      [] mapper = "twitter" -> convert_tweet_to_zotero_item(row)
      [] mapper = "youtube" -> convert_video_to_zotero_item(row, YouTubeBaseDate)

\* The citations of the records that are not skipped, in input order.
RECURSIVE KeptItems(_, _)
KeptItems(header, rows) ==
    IF rows = <<>> THEN <<>>
    ELSE LET r == RowOutcome(header, Head(rows))
         IN  (IF r.kind = "item" THEN <<r.item>> ELSE <<>>) \o KeptItems(header, Tail(rows))

\* created_at is missing, empty or another text the strict format rejects.
NonStrictCreatedAt(tweet) ==
    LET c == Get(tweet.created_at, Str(<<>>))
    IN  c.k = "str" /\ ~StrptimeTwitter(c.s).ok

\* C1: a social post whose created_at does not match the strict timestamp
\* format (an empty or missing one included) never aborts the run: a citation
\* is appended for it, the remaining posts are processed and the output file
\* is written with a citation for every post.
C1_NonStrictPostIsEmitted ==
    (mapper = "twitter" /\ Loaded)
    => /\ pc = "error" => ~NonStrictCreatedAt(input.rows[i + 1])
       /\ \A k \in 1..i :
              NonStrictCreatedAt(input.rows[k])
                  => \E j \in 1..Len(items) : items[j].id = input.rows[k].id

\* C2: in a run of the news, podcast or video mapper, the number of skip
\* diagnostics equals the number of input records that yield no citation.
C2_EverySkipIsDiagnosed ==
    (mapper \in {"news", "podcast", "youtube"} /\ pc = "done" /\ calls = 1)
    => Len(diag) = Len(input.rows) - Len(items)

\* The batch has records that are emitted and records that are skipped.
MixedBatch ==
    LET kept == Len(KeptItems(input.header, input.rows))
    IN  kept >= 1 /\ kept < Len(input.rows)

\* C3: for a batch with mixed emit and skip outcomes, the written sequence
\* of citations is exactly the citations of the non-skipped input records of
\* the batch, in input order.
C3_OutputIsKeptRecordsInOrder ==
    (mapper \in {"news", "podcast", "youtube"} /\ pc = "done" /\ MixedBatch)
    => out.data = KeptItems(input.header, input.rows)

\* C4: a run that ends in a batch-level failure (file not found, container
\* not parsable, no grant header row, an exception while the records are
\* processed) never opens the output file for writing; the file is written
\* only after every input record has been processed.
C4_NoPartialOutput ==
    /\ pc \in {"error", "crashed"} => ~opened
    /\ opened => (pc = "done" /\ Loaded /\ i = Len(input.rows) /\ out.data = items)

\* A run failed on a record after it had appended a citation for an earlier one.
C4_Witness ==
    /\ pc \in {"error", "crashed"}
    /\ Loaded
    /\ i >= 1
    /\ Len(items) >= 1
    /\ ~opened

\* A month-day-year triple that is a calendar date.
IsCalendarDate(p) ==
    /\ p[1] >= 1
    /\ p[2] \in 1..12
    /\ p[3] >= 1
    /\ p[3] <= DaysInMonth(p[1], p[2])

\* C7: the grant mapper's issued date is non-null only for a start date of
\* three numeric components that form a valid month-day-year calendar date
\* (month 13 or day 45 give null); the record is emitted either way.
C7_GrantIssuedIsCalendarDate ==
    (mapper = "grant" /\ Loaded)
    => /\ Len(items) = i
       /\ \A k \in 1..Len(items) :
              items[k].issued.kind = "date" => IsCalendarDate(items[k].issued.parts)

\* The news record has a non-empty URL and a title that is non-empty after
\* the leading '|' and blanks and the surrounding whitespace are stripped.
NewsHasUrlAndTitle(header, row) ==
    LET url    == Field(header, row, "url")
        result == Field(header, row, "result")
    IN  /\ url.k = "str" /\ url.s # <<>>
        /\ result.k = "str"
        /\ Strip(LStripSet(result.s, {"|", " "})) # <<>>

\* The URLs of the records that have a URL and a title, in input order.
RECURSIVE NewsExpectedUrls(_, _)
NewsExpectedUrls(header, rows) ==
    IF rows = <<>> THEN <<>>
    ELSE (IF NewsHasUrlAndTitle(header, Head(rows))
          THEN <<Field(header, Head(rows), "url")>> ELSE <<>>)
         \o NewsExpectedUrls(header, Tail(rows))

C10_PodcastRowNeverFailsRun ==
    (mapper = "podcast" /\ Loaded)
    => /\ pc # "crashed"
       /\ Len(items) + Len(diag) = i
       /\ \A k \in 1..Len(items) : items[k].URL # <<>> /\ IsCalendarDate(<<items[k].issued[1], items[k].issued[2], items[k].issued[3]>>)

\* A literal name without text, or a structured name whose family and given
\* are both empty.
IsEmptyName(n) ==
    \/ n.variant = "literal" /\ n.literal = <<>>
    \/ n.variant = "structured" /\ n.family = <<>> /\ n.given = <<>>

\* The contact PI field of the row yields a name.
ContactYieldsName(row) ==
    LET contact == Get(row.contact, None)
    IN  Truthy(contact) /\ ~IsEmptyName(parse_name(contact.s))

\* C11: in every citation of the grant mapper the author list has no empty
\* name (no empty literal, no structured name with empty family and given),
\* and the contact PI, when it yields a name, is the first author.
C11_GrantAuthorsHaveNoEmptyName ==
    (mapper = "grant" /\ Loaded)
    => \A k \in 1..Len(items) :
           /\ \A j \in 1..Len(items[k].author) : ~IsEmptyName(items[k].author[j])
           /\ ContactYieldsName(input.rows[k])
                  => /\ items[k].author # <<>>
                     /\ items[k].author[1] = parse_name(input.rows[k].contact.s)

\* C12: after any sequence of convert_file calls on one TwitterToZoteroConverter
\* or YouTubeToZoteroConverter, the file written by the latest call holds
\* exactly the citations of that call's input file, none of an earlier call.
C12_LatestCallWritesOnlyItsOwnInput ==
    (mapper \in {"twitter", "youtube"} /\ opened)
    => /\ Len(out.data) <= Len(input.rows)
       /\ out.data = KeptItems(input.header, input.rows)

\* The days the clock has shown since the run started.
RunInstants == {t \in ClockDays : t <= now}

\* C13: the accessed date of every emitted podcast or social-post citation
\* is the year, month and day of one single instant of the clock during the
\* run, never a mix of components read at different instants, even when the
\* clock crosses a day, month or year boundary during the conversion.
C13_AccessedIsOneInstant ==
    (mapper \in {"podcast", "twitter"})
    => /\ Len(accessed) = Len(items)
       /\ \A k \in 1..Len(accessed) : \E t \in RunInstants : accessed[k] = FromOrdinal(t)

=============================================================================
